---- MODULE Spec2Model ----
(***************************************************************************)
(* Payment plan provisioning of PayChargePortal.                           *)
(*                                                                         *)
(* Mode A is POST /api/create-subscription (server/routes.ts), mode B is   *)
(* POST /api/create-checkout-session with a subscription schedule          *)
(* (unnamed/part_000, first module).  Every request is an async handler:   *)
(* one action per await, each action also running the synchronous code     *)
(* that follows the await up to the next one.  The Registry (./storage)    *)
(* and the input schema (@shared/schema) are not part of the sources and   *)
(* are modelled from their contract.  The Processor (Stripe) is external:  *)
(* each of its calls either returns a fresh object or fails.               *)
(*                                                                         *)
(* Amounts are kept in minor units (pence).                                *)
(***************************************************************************)
EXTENDS Integers, Sequences, FiniteSets, TLC

\* Number of provisioning requests of one run; they may all overlap.
MaxReq == 2

Reqs == 1..MaxReq

Modes == {"A", "B"}

\* Request bodies the requests are drawn from: a valid one, a retry with
\* another PCN and amount, another email, and one body per validation rule.
Body(e, p, v, a) ==
    [email |-> e, pcnNumber |-> p, vehicleRegistration |-> v, penaltyAmount |-> a]

Bodies ==
    { Body("a@x.com", "PCN1", "AB12CDE", 9000),
      Body("a@x.com", "PCN2", "AB12CDE", 9100),
      Body("b@x.com", "PCN1", "AB12CDE", 9000),
      Body("", "PCN1", "AB12CDE", 9000),
      Body("a@x.com", "", "", 9000),
      Body("a@x.com", "PCN1", "AB12CDE", 0),
      Body("a@x.com", "PCN1", "AB12CDE", -500) }

NoBody == Body("", "", "", 0)

\* ---------------------------------------------------------------- state

VARIABLES
    customers,          \* Registry: set of Customer records
    stripeCustomers,    \* Processor: customers
    products,           \* Processor: products
    prices,             \* Processor: prices
    subscriptions,      \* Processor: subscriptions and subscription schedules
    sessions,           \* Processor: checkout sessions
    req,                \* per request: position, locals, response, history
    query,              \* the status query: position, response, history
    env,                \* process.env: the deployment configuration
    page                \* the payment portal page in one browser tab

vars == <<customers, stripeCustomers, products, prices, subscriptions, sessions, req,
          query, env, page>>

\* Identifiers are opaque and fresh (a UUID, a Processor id).  A request
\* creates at most one object of each kind, so the number of the creating
\* request serves as the identifier; 0 is "none" / "not set".

\* A Customer record (Database Schema).
NoCustomer ==
    [id |-> 0, email |-> "", pcnNumber |-> "", vehicleRegistration |-> "",
     stripeCustomerId |-> 0, stripeSubscriptionId |-> 0, createdAt |-> 0]

NoResponse ==
    [status |-> 0, error |-> "", clientSecret |-> "", subscriptionId |-> 0,
     customerId |-> 0, sessionId |-> 0, url |-> ""]

IdleReq ==
    [pc |-> "idle", mode |-> "A", body |-> NoBody, customer |-> NoCustomer,
     stripeCustomer |-> 0, product |-> 0, price |-> 0, subscription |-> 0,
     res |-> NoResponse, sent |-> 0, threw |-> "", calls |-> <<>>,
     attachedAtStart |-> FALSE, finishedBefore |-> {}]

\* The response of a status query: the payload is the Processor's object.
NoPayload == [id |-> 0]

NoQueryResponse == [status |-> 0, error |-> "", payload |-> NoPayload]

\* A status query: kind is the route, id the :id parameter or ?sessionId
\* (0 when the query string has none).
IdleQuery ==
    [pc |-> "idle", kind |-> "subscription", id |-> 0, res |-> NoQueryResponse,
     sent |-> 0, calls |-> <<>>]

\* The form's penaltyAmount is in pounds; as every amount it is kept in
\* minor units.
FormData(p, v, e, a) ==
    [pcnNumber |-> p, vehicleRegistration |-> v, email |-> e, penaltyAmount |-> a]

NoToast == ""

\* The page as PaymentPortal mounts it: useState defaults, no request sent.
\* pc is the await handleFormSubmit is suspended at, timers the pending
\* setTimeout callbacks, location the document the tab shows.
InitialPage ==
    [formData |-> FormData("PCN123456789", "AB12CDE", "pcn@payment.com", 9000),
     isLoading |-> FALSE, acceptedTerms |-> FALSE, toast |-> NoToast,
     pc |-> "idle", sent |-> 0, lastBody |-> NoBody, timers |-> 0,
     location |-> "portal"]

\* The environment variables the redirect base is resolved from; "" is a
\* variable that is not set (or set to the empty string: both are falsy).
Env(custom, hostname, slug, owner, url) ==
    [CUSTOM_DOMAIN_URL |-> custom, WEBSITE_HOSTNAME |-> hostname,
     REPL_SLUG |-> slug, REPL_OWNER |-> owner, WEBSITE_URL |-> url]

\* A development machine: none of the variables is set.
LocalEnv == Env("", "", "", "", "")

Envs ==
    { Env(c, h, s, o, u) :
        c \in {"", "https://pay.example.org"}, h \in {"", "portal.azurewebsites.net"},
        s \in {"", "pcn"}, o \in {"", "council"}, u \in {"", "https://www.example.org"} }

\* The state after the server has started in deployment e.
Start(e) ==
    /\ customers = {}
    /\ stripeCustomers = {}
    /\ products = {}
    /\ prices = {}
    /\ subscriptions = {}
    /\ sessions = {}
    /\ req = [r \in Reqs |-> IdleReq]
    /\ query = IdleQuery
    /\ env = e
    /\ page = InitialPage

Init == Start(LocalEnv)

\* ------------------------------------------------------------- Registry

\* Variant: the lookup returns a record whatever its email.
getCustomerByEmail_Any(cs, email) ==
    IF cs # {} THEN CHOOSE c \in cs : TRUE ELSE NoCustomer

\* storage.getCustomerByEmail: the record with that email, or none.
getCustomerByEmail(cs, email) ==
    IF \E c \in cs : c.email = email
    THEN CHOOSE c \in cs : c.email = email
    ELSE NoCustomer

ById(set, id) == CHOOSE x \in set : x.id = id

\* storage.createCustomer: email is a unique key.
createCustomerConflict(cs, email) ==
    \E c \in cs : c.email = email

createCustomer(cs, id, b) ==
    [id |-> id, email |-> b.email, pcnNumber |-> b.pcnNumber,
     vehicleRegistration |-> b.vehicleRegistration,
     stripeCustomerId |-> 0, stripeSubscriptionId |-> 0,
     createdAt |-> Cardinality(cs) + 1]

\* Variant: the update overwrites whatever id is stored.
updateRejected_Never(cs, id, cus) == FALSE

\* storage.updateCustomerStripeInfo(id, stripeCustomerId, stripeSubscriptionId?):
\* rejected when the record already holds another stripeCustomerId.
updateRejected(cs, id, cus) ==
    ById(cs, id).stripeCustomerId # 0 /\ ById(cs, id).stripeCustomerId # cus

\* Variant: the update stamps the record again.
updateCustomerStripeInfo_Touch(cs, id, cus, sub) ==
    [ById(cs, id) EXCEPT !.stripeCustomerId = cus,
                         !.stripeSubscriptionId = IF sub # 0 THEN sub ELSE @,
                         !.createdAt = @ + 1]

updateCustomerStripeInfo(cs, id, cus, sub) ==
    [ById(cs, id) EXCEPT !.stripeCustomerId = cus,
                         !.stripeSubscriptionId = IF sub # 0 THEN sub ELSE @]

Replace(cs, c) == {x \in cs : x.id # c.id} \cup {c}

\* insertCustomerSchema.parse: the three identifying strings are required.
insertCustomerSchemaOk(b) ==
    b.email # "" /\ b.pcnNumber # "" /\ b.vehicleRegistration # ""

\* -------------------------------------------------------------- helpers

Called(r, op) == [req EXCEPT ![r].calls = Append(@, op)]

\* res.json(payload) / res.status(s).json(payload): one more response is
\* sent, and the handler has nothing left to run.
Respond(q, r, payload) ==
    [q EXCEPT ![r].pc = "done", ![r].res = payload, ![r].sent = @ + 1]

\* Variant: the catch answers with a server-error status.
Catch_Status500(q, r) ==
    Respond(q, r, [NoResponse EXCEPT !.status = 500, !.error = q[r].threw])

\* Variant: the catch logs the error and sends nothing.
Catch_NoResponse(q, r) == [q EXCEPT ![r].pc = "caught"]

\* catch (error): res.status(400).json({ error: error.message })
Catch(q, r) ==
    Respond(q, r, [NoResponse EXCEPT !.status = 400, !.error = q[r].threw])

\* Variant: the error is answered but the handler goes on after it.
Failed_NoStop(q, r, msg) ==
    [q EXCEPT ![r].threw = msg, ![r].sent = @ + 1,
              ![r].res = [NoResponse EXCEPT !.status = 400, !.error = msg]]

\* A statement of the try block throws msg: control passes to the catch.
Failed(q, r, msg) == Catch([q EXCEPT ![r].threw = msg], r)

Succeeded(r) == req[r].pc = "done" /\ req[r].res.status = 200

\* An object created without a metadata argument has none.
NoMetadata == [k \in {} |-> ""]

\* metadata: { pcnNumber: customer.pcnNumber, vehicleRegistration:
\* customer.vehicleRegistration }, read from the Customer record.
customerMetadata(c) ==
    [pcnNumber |-> c.pcnNumber, vehicleRegistration |-> c.vehicleRegistration]

StartsWith(s, p) == Len(s) >= Len(p) /\ SubSeq(s, 1, Len(p)) = p

\* Variant: the redirect base is hard-coded.
domainURL_Localhost(e) == "http://localhost:5000"

\* Variant: WEBSITE_URL is looked at first.
domainURL_UrlFirst(e) ==
    IF e.WEBSITE_URL # "" THEN e.WEBSITE_URL
    ELSE IF e.CUSTOM_DOMAIN_URL # "" THEN e.CUSTOM_DOMAIN_URL
    ELSE IF e.WEBSITE_HOSTNAME # "" THEN "https://" \o e.WEBSITE_HOSTNAME
    ELSE IF e.REPL_SLUG # "" /\ e.REPL_OWNER # ""
         THEN "https://" \o e.REPL_SLUG \o "." \o e.REPL_OWNER \o ".repl.co"
    ELSE "http://localhost:5000"

\* Mode B: domainURL = CUSTOM_DOMAIN_URL || (WEBSITE_HOSTNAME && https://...)
\* || (REPL_SLUG && REPL_OWNER && https://slug.owner.repl.co) || WEBSITE_URL
\* || "http://localhost:5000"
domainURL(e) ==
    IF e.CUSTOM_DOMAIN_URL # "" THEN e.CUSTOM_DOMAIN_URL
    ELSE IF e.WEBSITE_HOSTNAME # "" THEN "https://" \o e.WEBSITE_HOSTNAME
    ELSE IF e.REPL_SLUG # "" /\ e.REPL_OWNER # ""
         THEN "https://" \o e.REPL_SLUG \o "." \o e.REPL_OWNER \o ".repl.co"
    ELSE IF e.WEBSITE_URL # "" THEN e.WEBSITE_URL
    ELSE "http://localhost:5000"

\* session.url: the page the Processor hosts for the session.
HostedCheckoutUrl == "https://checkout.stripe.com/c/pay"

\* ------------------------------------------------------------- requests

\* A request arrives.  Mode A parses the body with insertCustomerSchema
\* before anything else; mode B destructures req.body as it is.
Request(r, m, b) ==
    /\ req[r].pc = "idle"
    /\ \A s \in Reqs : s < r => req[s].pc # "idle"
    /\ LET started == [req EXCEPT ![r].mode = m, ![r].body = b,
                           ![r].attachedAtStart =
                               getCustomerByEmail(customers, b.email).stripeCustomerId # 0,
                           ![r].finishedBefore = {s \in Reqs : Succeeded(s)}]
       IN  IF m = "A" /\ ~insertCustomerSchemaOk(b)
           THEN req' = Failed(started, r, "ValidationError")
           ELSE req' = [started EXCEPT ![r].pc = "getCustomerByEmail"]
    /\ UNCHANGED <<customers, stripeCustomers, products, prices, subscriptions, sessions, query, env, page>>

\* Variant: a record that is found is sent to the create path whether or
\* not it holds a stripeCustomerId.
GetCustomerByEmail_AlwaysCreate(r) ==
    /\ req[r].pc = "getCustomerByEmail"
    /\ LET c == getCustomerByEmail(customers, req[r].body.email)
           q == Called(r, "getCustomerByEmail")
       IN  req' = [q EXCEPT ![r].customer = c,
                            ![r].pc = IF c.id = 0 THEN "createCustomer"
                                      ELSE "customersCreate"]
    /\ UNCHANGED <<customers, stripeCustomers, products, prices, subscriptions, sessions, query, env, page>>

\* customer = await storage.getCustomerByEmail(email), then the branch on
\* !customer and, for a record found, on customer.stripeCustomerId.
GetCustomerByEmail(r) ==
    /\ req[r].pc = "getCustomerByEmail"
    /\ LET c == getCustomerByEmail(customers, req[r].body.email)
           q == Called(r, "getCustomerByEmail")
       IN  req' = [q EXCEPT ![r].customer = c,
                            ![r].pc = IF c.id = 0 THEN "createCustomer"
                                      ELSE IF c.stripeCustomerId # 0
                                           THEN "customersRetrieve"
                                           ELSE "customersCreate"]
    /\ UNCHANGED <<customers, stripeCustomers, products, prices, subscriptions, sessions, query, env, page>>

\* Variant: the handler goes on with a record it never stored.
CreateCustomer_NotStored(r) ==
    /\ req[r].pc = "createCustomer"
    /\ req' = [Called(r, "createCustomer") EXCEPT
                   ![r].customer = createCustomer(customers, r, req[r].body),
                   ![r].pc = "customersCreate"]
    /\ UNCHANGED <<customers, stripeCustomers, products, prices, subscriptions, sessions, query, env, page>>

\* customer = await storage.createCustomer({email, pcnNumber, vehicleRegistration});
\* a ConflictError is not caught apart from the handler's catch-all.
CreateCustomer(r) ==
    /\ req[r].pc = "createCustomer"
    /\ LET q == Called(r, "createCustomer")
           c == createCustomer(customers, r, req[r].body)
       IN  IF createCustomerConflict(customers, req[r].body.email)
           THEN /\ req' = Failed(q, r, "ConflictError")
                /\ UNCHANGED customers
           ELSE /\ customers' = customers \cup {c}
                /\ req' = [q EXCEPT ![r].customer = c,
                                    ![r].pc = IF c.stripeCustomerId # 0
                                              THEN "customersRetrieve"
                                              ELSE "customersCreate"]
    /\ UNCHANGED <<stripeCustomers, products, prices, subscriptions, sessions, query, env, page>>

\* stripeCustomer = await stripe.customers.retrieve(customer.stripeCustomerId)
CustomersRetrieve(r) ==
    /\ req[r].pc = "customersRetrieve"
    /\ req' = [Called(r, "customers.retrieve") EXCEPT
                   ![r].stripeCustomer = req[r].customer.stripeCustomerId,
                   ![r].pc = "productsCreate"]
    /\ UNCHANGED <<customers, stripeCustomers, products, prices, subscriptions, sessions, query, env, page>>

\* Variant: the new processor customer id is not persisted before the
\* product is created.
CustomersCreate_NoPersist(r) ==
    /\ req[r].pc = "customersCreate"
    /\ stripeCustomers' = stripeCustomers \cup
           {[id |-> r, email |-> req[r].customer.email,
             pcnNumber |-> req[r].customer.pcnNumber,
             vehicleRegistration |-> req[r].customer.vehicleRegistration,
             metadata |-> customerMetadata(req[r].customer)]}
    /\ req' = [Called(r, "customers.create") EXCEPT
                   ![r].stripeCustomer = r,
                   ![r].pc = "productsCreate"]
    /\ UNCHANGED <<customers, products, prices, subscriptions, sessions, query, env, page>>

\* stripeCustomer = await stripe.customers.create({email, metadata})
CustomersCreate(r) ==
    /\ req[r].pc = "customersCreate"
    /\ stripeCustomers' = stripeCustomers \cup
           {[id |-> r, email |-> req[r].customer.email,
             pcnNumber |-> req[r].customer.pcnNumber,
             vehicleRegistration |-> req[r].customer.vehicleRegistration,
             metadata |-> customerMetadata(req[r].customer)]}
    /\ req' = [Called(r, "customers.create") EXCEPT
                   ![r].stripeCustomer = r,
                   ![r].pc = "updateCustomerStripeInfo"]
    /\ UNCHANGED <<customers, products, prices, subscriptions, sessions, query, env, page>>

\* customer = await storage.updateCustomerStripeInfo(customer.id, stripeCustomer.id)
UpdateCustomerStripeInfo(r) ==
    /\ req[r].pc = "updateCustomerStripeInfo"
    /\ LET q  == Called(r, "updateCustomerStripeInfo")
           id == req[r].customer.id
           c  == updateCustomerStripeInfo(customers, id, req[r].stripeCustomer, 0)
       IN  IF updateRejected(customers, id, req[r].stripeCustomer)
           THEN /\ req' = Failed(q, r, "InvariantViolation")
                /\ UNCHANGED customers
           ELSE /\ customers' = Replace(customers, c)
                /\ req' = [q EXCEPT ![r].customer = c, ![r].pc = "productsCreate"]
    /\ UNCHANGED <<stripeCustomers, products, prices, subscriptions, sessions, query, env, page>>

\* Variant: a product that exists for the same PCN is reused.
ProductsCreate_Reuse(r) ==
    /\ req[r].pc = "productsCreate"
    /\ LET same == {p \in products : p.pcnNumber = req[r].body.pcnNumber}
       IN  IF same = {}
           THEN /\ products' = products \cup
                       {[id |-> r, pcnNumber |-> req[r].body.pcnNumber,
                         vehicleRegistration |-> req[r].body.vehicleRegistration,
                         metadata |-> NoMetadata]}
                /\ req' = [Called(r, "products.create") EXCEPT
                               ![r].product = r, ![r].pc = "pricesCreate"]
           ELSE /\ products' = products
                /\ req' = [req EXCEPT ![r].product = (CHOOSE p \in same : TRUE).id,
                                      ![r].pc = "pricesCreate"]
    /\ UNCHANGED <<customers, stripeCustomers, prices, subscriptions, sessions, query, env, page>>

\* product = await stripe.products.create({name, description}): both strings
\* are built from the request's pcnNumber and vehicleRegistration.
ProductsCreate(r) ==
    /\ req[r].pc = "productsCreate"
    /\ products' = products \cup
           {[id |-> r, pcnNumber |-> req[r].body.pcnNumber,
             vehicleRegistration |-> req[r].body.vehicleRegistration,
             metadata |-> NoMetadata]}
    /\ req' = [Called(r, "products.create") EXCEPT
                   ![r].product = r, ![r].pc = "pricesCreate"]
    /\ UNCHANGED <<customers, stripeCustomers, prices, subscriptions, sessions, query, env, page>>

\* Mode A: unit_amount: 3000.
FixedUnitAmount == 3000

\* Variant: the share is truncated instead of rounded.
monthlyAmountInPence_Floor(p) == p \div 3

\* Mode B: Math.round((penaltyAmount / 3) * 100), on an amount in minor units:
\* the nearest integer to p / 3, a half rounding up.
monthlyAmountInPence(p) == (2 * p + 3) \div 6

\* Variant: the price follows the penaltyAmount of the body in both modes.
unitAmount_FromBody(r) == monthlyAmountInPence(req[r].body.penaltyAmount)

\* The unit_amount of the request's price.
unitAmount(r) ==
    IF req[r].mode = "A" THEN FixedUnitAmount
    ELSE monthlyAmountInPence(req[r].body.penaltyAmount)

\* price = await stripe.prices.create({unit_amount, currency, recurring, product});
\* the Processor takes no negative unit_amount (0 is a free price).
PricesCreate(r) ==
    /\ req[r].pc = "pricesCreate"
    /\ IF unitAmount(r) < 0
       THEN /\ req' = Failed(Called(r, "prices.create"), r, "ProcessorError")
            /\ UNCHANGED prices
       ELSE /\ prices' = prices \cup
                   {[id |-> r, unit_amount |-> unitAmount(r), product |-> req[r].product,
                     metadata |-> NoMetadata]}
            /\ req' = [Called(r, "prices.create") EXCEPT
                           ![r].price = r,
                           ![r].pc = IF req[r].mode = "A" THEN "subscriptionsCreate"
                                     ELSE "subscriptionSchedulesCreate"]
    /\ UNCHANGED <<customers, stripeCustomers, products, subscriptions, sessions, query, env, page>>

\* Mode B: phases: [{ items: [{ price }], iterations: 3 }]
Iterations == 3

\* -- the calendar: Date.now() and the monthly billing dates, in whole days

Date(y, m, d) == [y |-> y, m |-> m, d |-> d]

\* Day 0 of the day count; its year is a leap year.
Epoch == Date(2024, 1, 1)

\* Number of years, from that of Epoch on, the creation dates are drawn from.
MaxYears == 4

Years == Epoch.y..(Epoch.y + MaxYears - 1)

IsLeap(y) == y % 4 = 0 /\ (y % 100 # 0 \/ y % 400 = 0)

DaysInMonth(y, m) ==
    IF m = 2 THEN (IF IsLeap(y) THEN 29 ELSE 28)
    ELSE IF m \in {4, 6, 9, 11} THEN 30 ELSE 31

Dates == {t \in [y : Years, m : 1..12, d : 1..31] : t.d <= DaysInMonth(t.y, t.m)}

RECURSIVE DaysBeforeYear(_)
DaysBeforeYear(y) ==
    IF y <= Epoch.y THEN 0
    ELSE DaysBeforeYear(y - 1) + (IF IsLeap(y - 1) THEN 366 ELSE 365)

RECURSIVE DaysBeforeMonth(_, _)
DaysBeforeMonth(y, m) ==
    IF m <= 1 THEN 0 ELSE DaysBeforeMonth(y, m - 1) + DaysInMonth(y, m - 1)

\* The day number of a date, counted from Epoch: what
\* Math.floor(Date.now() / 1000) is in seconds, in days.
DayNumber(t) == DaysBeforeYear(t.y) + DaysBeforeMonth(t.y, t.m) + (t.d - 1)

\* cancel_at: Math.floor(Date.now() / 1000) + (90 * 24 * 60 * 60)
CancelAfterDays == 90

\* The k-th monthly billing date of a subscription (interval: 'month',
\* interval_count: 1) created on t: the same day of the k-th following
\* month, or the last day of that month when it is shorter.
BillingDate(t, k) ==
    LET n == (t.m - 1) + k
        y == t.y + (n \div 12)
        m == (n % 12) + 1
    IN  Date(y, m, IF t.d > DaysInMonth(y, m) THEN DaysInMonth(y, m) ELSE t.d)

\* The date of the runs in which the date plays no part.
Today == Date(2025, 6, 16)

\* The metadata of a subscription or schedule is read from the Customer
\* record the request holds, not from the request body.  A schedule bills
\* its one price Iterations times; a subscription has no iteration count.
\* totalPayments is the decimal string '3'; penaltyAmount.toString() and
\* (penaltyAmount / 3).toFixed(2) are kept as amounts in minor units.
subscriptionMetadata(r, kind) ==
    IF kind = "schedule"
    THEN [pcnNumber |-> req[r].customer.pcnNumber,
          vehicleRegistration |-> req[r].customer.vehicleRegistration,
          totalPayments |-> 3,
          penaltyAmount |-> req[r].body.penaltyAmount,
          monthlyAmount |-> monthlyAmountInPence(req[r].body.penaltyAmount)]
    ELSE [pcnNumber |-> req[r].customer.pcnNumber,
          vehicleRegistration |-> req[r].customer.vehicleRegistration,
          totalPayments |-> 3]

NewSubscription(r, kind, pi) ==
    [id |-> r, kind |-> kind,
     iterations |-> IF kind = "schedule" THEN Iterations ELSE 0,
     customer |-> req[r].stripeCustomer, price |-> req[r].price,
     pcnNumber |-> req[r].customer.pcnNumber,
     vehicleRegistration |-> req[r].customer.vehicleRegistration,
     totalPayments |-> 3, hasPaymentIntent |-> pi,
     metadata |-> subscriptionMetadata(r, kind)]

\* created and cancel_at of a subscription created at now.
Timed(now) == [created |-> now, cancel_at |-> DayNumber(now) + CancelAfterDays]

\* Mode A: subscription = await stripe.subscriptions.create({...});
\* latest_invoice.payment_intent is expanded and may be absent; now is the
\* date of the call.
SubscriptionsCreate(r, now) ==
    /\ req[r].pc = "subscriptionsCreate"
    /\ \E pi \in BOOLEAN :
           subscriptions' = subscriptions \cup
               {NewSubscription(r, "subscription", pi) @@ Timed(now)}
    /\ req' = [Called(r, "subscriptions.create") EXCEPT
                   ![r].subscription = r,
                   ![r].pc = "attachSubscription"]
    /\ UNCHANGED <<customers, stripeCustomers, products, prices, sessions, query, env, page>>

\* Mode A: await storage.updateCustomerStripeInfo(customer.id, stripeCustomer.id,
\* subscription.id), then res.json({clientSecret, subscriptionId, customerId}).
AttachSubscription(r) ==
    /\ req[r].pc = "attachSubscription"
    /\ LET q   == Called(r, "updateCustomerStripeInfo")
           id  == req[r].customer.id
           sub == ById(subscriptions, req[r].subscription)
       IN  IF updateRejected(customers, id, req[r].stripeCustomer)
           THEN /\ req' = Failed(q, r, "InvariantViolation")
                /\ UNCHANGED customers
           ELSE /\ customers' = Replace(customers,
                        updateCustomerStripeInfo(customers, id, req[r].stripeCustomer,
                                                 req[r].subscription))
                /\ req' = Respond(q, r, [NoResponse EXCEPT
                           !.status = 200,
                           !.clientSecret = IF sub.hasPaymentIntent THEN "pi_secret" ELSE "",
                           !.subscriptionId = sub.id,
                           !.customerId = id])
    /\ UNCHANGED <<stripeCustomers, products, prices, subscriptions, sessions, query, env, page>>

\* Mode B: schedule = await stripe.subscriptionSchedules.create({...})
SubscriptionSchedulesCreate(r) ==
    /\ req[r].pc = "subscriptionSchedulesCreate"
    /\ subscriptions' = subscriptions \cup {NewSubscription(r, "schedule", FALSE)}
    /\ req' = [Called(r, "subscriptionSchedules.create") EXCEPT
                   ![r].subscription = r,
                   ![r].pc = "checkoutSessionsCreate"]
    /\ UNCHANGED <<customers, stripeCustomers, products, prices, sessions, query, env, page>>

\* Mode B: session = await stripe.checkout.sessions.create({...}), then
\* res.json({sessionId, url, customerId}).
CheckoutSessionsCreate(r) ==
    /\ req[r].pc = "checkoutSessionsCreate"
    /\ sessions' = sessions \cup
           {[id |-> r, customer |-> req[r].stripeCustomer,
             subscription |-> req[r].subscription,
             customerId |-> req[r].customer.id,
             pcnNumber |-> req[r].customer.pcnNumber,
             vehicleRegistration |-> req[r].customer.vehicleRegistration,
             url |-> HostedCheckoutUrl,
             success_url |-> domainURL(env) \o
                             "/payment-success?session_id={CHECKOUT_SESSION_ID}",
             cancel_url |-> domainURL(env) \o "/",
             metadata |->
                 [customerId |-> req[r].customer.id,
                  pcnNumber |-> req[r].customer.pcnNumber,
                  vehicleRegistration |-> req[r].customer.vehicleRegistration,
                  penaltyAmount |-> req[r].body.penaltyAmount,
                  monthlyAmount |-> monthlyAmountInPence(req[r].body.penaltyAmount)]]}
    /\ req' = Respond(Called(r, "checkout.sessions.create"), r,
                      [NoResponse EXCEPT
                          !.status = 200, !.sessionId = r,
                          !.url = HostedCheckoutUrl,
                          !.customerId = req[r].customer.id])
    /\ UNCHANGED <<customers, stripeCustomers, products, prices, subscriptions, query, env, page>>

\* The awaited call of a request.
PendingCall(r) ==
    CASE req[r].pc = "getCustomerByEmail" -> "getCustomerByEmail"
      [] req[r].pc = "createCustomer" -> "createCustomer"
      [] req[r].pc = "customersRetrieve" -> "customers.retrieve"
      [] req[r].pc = "customersCreate" -> "customers.create"
      [] req[r].pc = "updateCustomerStripeInfo" -> "updateCustomerStripeInfo"
      [] req[r].pc = "productsCreate" -> "products.create"
      [] req[r].pc = "pricesCreate" -> "prices.create"
      [] req[r].pc = "subscriptionsCreate" -> "subscriptions.create"
      [] req[r].pc = "attachSubscription" -> "updateCustomerStripeInfo"
      [] req[r].pc = "subscriptionSchedulesCreate" -> "subscriptionSchedules.create"
      [] req[r].pc = "checkoutSessionsCreate" -> "checkout.sessions.create"
      [] OTHER -> ""

RegistryCalls == {"getCustomerByEmail", "createCustomer", "updateCustomerStripeInfo"}

\* The errors an awaited call can reject with: the database fails, the
\* Processor fails, or the Processor does not know the customer id.
ErrorsOf(op) ==
    IF op \in RegistryCalls THEN {"StorageError"}
    ELSE IF op = "customers.retrieve" THEN {"NotFoundError", "ProcessorError"}
    ELSE {"ProcessorError"}

\* Variant: a customer the Processor does not know is created again.
CallFails_Fallback(r) ==
    /\ PendingCall(r) # ""
    /\ \E msg \in ErrorsOf(PendingCall(r)) :
           req' = IF msg = "NotFoundError"
                  THEN [Called(r, PendingCall(r)) EXCEPT
                            ![r].threw = msg, ![r].pc = "customersCreate"]
                  ELSE Failed(Called(r, PendingCall(r)), r, msg)
    /\ UNCHANGED <<customers, stripeCustomers, products, prices, subscriptions, sessions, query, env, page>>

\* Variant: a call that rejected is issued again.
CallFails_Retry(r) ==
    /\ PendingCall(r) # ""
    /\ req' = Called(r, PendingCall(r))
    /\ UNCHANGED <<customers, stripeCustomers, products, prices, subscriptions, sessions, query, env, page>>

\* The awaited call rejects (the database or the Processor reports an error)
\* without having had its effect: the handler's catch answers 400.
CallFails(r) ==
    /\ PendingCall(r) # ""
    /\ \E msg \in ErrorsOf(PendingCall(r)) :
           req' = Failed(Called(r, PendingCall(r)), r, msg)
    /\ UNCHANGED <<customers, stripeCustomers, products, prices, subscriptions, sessions, query, env, page>>

Next ==
    \E r \in Reqs :
        \/ \E m \in Modes, b \in Bodies : Request(r, m, b)
        \/ GetCustomerByEmail(r)
        \/ CreateCustomer(r)
        \/ CustomersRetrieve(r)
        \/ CustomersCreate(r)
        \/ UpdateCustomerStripeInfo(r)
        \/ ProductsCreate(r)
        \/ PricesCreate(r)
        \/ SubscriptionsCreate(r, Today)
        \/ AttachSubscription(r)
        \/ SubscriptionSchedulesCreate(r)
        \/ CheckoutSessionsCreate(r)
        \/ CallFails(r)

Spec == Init /\ [][Next]_vars

\* A step of the handler of request r: an awaited call returns or rejects.
Step(r) ==
    \/ GetCustomerByEmail(r)
    \/ CreateCustomer(r)
    \/ CustomersRetrieve(r)
    \/ CustomersCreate(r)
    \/ UpdateCustomerStripeInfo(r)
    \/ ProductsCreate(r)
    \/ PricesCreate(r)
    \/ SubscriptionsCreate(r, Today)
    \/ AttachSubscription(r)
    \/ SubscriptionSchedulesCreate(r)
    \/ CheckoutSessionsCreate(r)
    \/ CallFails(r)

\* Every awaited call of every request eventually returns or rejects.
FairSpec == Spec /\ \A r \in Reqs : WF_vars(Step(r))

\* ---------------------------------------------------- the instalment split

\* Largest total (in minor units) of the range the split is checked on.
MaxAmount == 40

Amounts == (1..MaxAmount) \cup {9000, 9100}

\* One mode-B request on a fresh Registry, its total drawn from Amounts.
SplitRequest ==
    \E p \in Amounts : Request(1, "B", Body("a@x.com", "PCN1", "AB12CDE", p))

SplitNext ==
    \/ SplitRequest
    \/ GetCustomerByEmail(1)
    \/ CreateCustomer(1)
    \/ CustomersCreate(1)
    \/ UpdateCustomerStripeInfo(1)
    \/ ProductsCreate(1)
    \/ PricesCreate(1)
    \/ SubscriptionSchedulesCreate(1)
    \/ CheckoutSessionsCreate(1)
    \/ CallFails(1)

SplitSpec == Init /\ [][SplitNext]_vars

\* The body of the runs that need one valid request only.
QueryBodies == {Body("a@x.com", "PCN1", "AB12CDE", 9000)}

\* -------------------------------------------------- the redirect targets

\* One mode-B request in a deployment with any of the configurations.
RedirectSpec == (\E e \in Envs : Start(e)) /\ [][SplitNext]_vars

\* ------------------------------------------------- the cancellation date

\* One mode-A request whose subscription is created on any date of Years.
CalendarNext ==
    \/ \E b \in QueryBodies : Request(1, "A", b)
    \/ GetCustomerByEmail(1)
    \/ CreateCustomer(1)
    \/ CustomersCreate(1)
    \/ UpdateCustomerStripeInfo(1)
    \/ ProductsCreate(1)
    \/ PricesCreate(1)
    \/ \E now \in Dates : SubscriptionsCreate(1, now)
    \/ AttachSubscription(1)
    \/ CallFails(1)

CalendarSpec == Init /\ [][CalendarNext]_vars

\* --------------------------------------------------------- status queries

\* GET /api/subscription/:id and GET /api/checkout-session?sessionId=...
QueryKinds == {"subscription", "checkoutSession"}

\* Ids a query may carry: those of the objects the requests can create and
\* one the Processor never issued; 0 is a query string whose sessionId is
\* missing or not a string.
UnknownId == MaxReq + 1

QueryIds == 0..UnknownId

\* res.json(payload) / res.status(s).json({ error }) of a query handler.
QueryRespond(q, status, error, payload) ==
    [q EXCEPT !.pc = "done", !.sent = @ + 1,
              !.res = [status |-> status, error |-> error, payload |-> payload]]

\* Variant: a query without sessionId is handed to the Processor as it is.
QueryRequest_NoGuard(k, id) ==
    /\ query.pc \in {"idle", "done"}
    /\ k = "subscription" => id # 0
    /\ query' = [IdleQuery EXCEPT
                     !.kind = k, !.id = id,
                     !.pc = IF k = "subscription" THEN "subscriptionsRetrieve"
                            ELSE "sessionsRetrieve"]
    /\ UNCHANGED <<customers, stripeCustomers, products, prices, subscriptions, sessions,
                   req, env, page>>

\* A query arrives.  The route parameter :id is never empty; the session
\* query answers 400 at once when sessionId is missing or not a string.
QueryRequest(k, id) ==
    /\ query.pc \in {"idle", "done"}
    /\ k = "subscription" => id # 0
    /\ LET q == [IdleQuery EXCEPT !.kind = k, !.id = id]
       IN  query' = IF k = "subscription"
                    THEN [q EXCEPT !.pc = "subscriptionsRetrieve"]
                    ELSE IF id = 0
                         THEN QueryRespond(q, 400, "Session ID is required", NoPayload)
                         ELSE [q EXCEPT !.pc = "sessionsRetrieve"]
    /\ UNCHANGED <<customers, stripeCustomers, products, prices, subscriptions, sessions,
                   req, env, page>>

\* The subscription the Processor holds under an id, if any (a schedule is
\* not a subscription and has an id of its own kind).
SubscriptionOf(id) == {s \in subscriptions : s.kind = "subscription" /\ s.id = id}

\* Variant: the handler answers with a summary of the subscription.
SubscriptionsRetrieve_Summary ==
    /\ query.pc = "subscriptionsRetrieve"
    /\ LET q == [query EXCEPT !.calls = Append(@, "subscriptions.retrieve")]
       IN  query' = IF SubscriptionOf(query.id) # {}
                    THEN QueryRespond(q, 200, "", [id |-> query.id])
                    ELSE QueryRespond(q, 400, "NotFoundError", NoPayload)
    /\ UNCHANGED <<customers, stripeCustomers, products, prices, subscriptions, sessions,
                   req, env, page>>

\* Variant: the handler stores the subscription it looked up on the Customer
\* record of the subscription's processor customer.
SubscriptionsRetrieve_Sync ==
    /\ query.pc = "subscriptionsRetrieve"
    /\ LET q == [query EXCEPT !.calls = Append(@, "subscriptions.retrieve")]
       IN  IF SubscriptionOf(query.id) # {}
           THEN LET s == CHOOSE x \in SubscriptionOf(query.id) : TRUE
                IN  /\ query' = QueryRespond(q, 200, "", s)
                    /\ customers' =
                           {IF c.stripeCustomerId = s.customer
                            THEN [c EXCEPT !.stripeSubscriptionId = s.id] ELSE c
                              : c \in customers}
           ELSE /\ query' = QueryRespond(q, 400, "NotFoundError", NoPayload)
                /\ UNCHANGED customers
    /\ UNCHANGED <<stripeCustomers, products, prices, subscriptions, sessions, req, env, page>>

\* subscription = await stripe.subscriptions.retrieve(id); res.json(subscription).
\* An id the Processor does not know rejects, and the catch answers 400.
SubscriptionsRetrieve ==
    /\ query.pc = "subscriptionsRetrieve"
    /\ LET q == [query EXCEPT !.calls = Append(@, "subscriptions.retrieve")]
       IN  query' = IF SubscriptionOf(query.id) # {}
                    THEN QueryRespond(q, 200, "", CHOOSE s \in SubscriptionOf(query.id) : TRUE)
                    ELSE QueryRespond(q, 400, "NotFoundError", NoPayload)
    /\ UNCHANGED <<customers, stripeCustomers, products, prices, subscriptions, sessions,
                   req, env, page>>

SessionOf(id) == {s \in sessions : s.id = id}

\* session = await stripe.checkout.sessions.retrieve(sessionId); res.json(session).
SessionsRetrieve ==
    /\ query.pc = "sessionsRetrieve"
    /\ LET q == [query EXCEPT !.calls = Append(@, "checkout.sessions.retrieve")]
       IN  query' = IF SessionOf(query.id) # {}
                    THEN QueryRespond(q, 200, "", CHOOSE s \in SessionOf(query.id) : TRUE)
                    ELSE QueryRespond(q, 400, "NotFoundError", NoPayload)
    /\ UNCHANGED <<customers, stripeCustomers, products, prices, subscriptions, sessions,
                   req, env, page>>

PendingRead ==
    CASE query.pc = "subscriptionsRetrieve" -> "subscriptions.retrieve"
      [] query.pc = "sessionsRetrieve" -> "checkout.sessions.retrieve"
      [] OTHER -> ""

\* The awaited read rejects (network, timeout): the catch answers 400.
QueryFails ==
    /\ PendingRead # ""
    /\ query' = QueryRespond([query EXCEPT !.calls = Append(@, PendingRead)],
                             400, "ProcessorError", NoPayload)
    /\ UNCHANGED <<customers, stripeCustomers, products, prices, subscriptions, sessions,
                   req, env, page>>

QueryNext ==
    \/ \E r \in Reqs, m \in Modes, b \in QueryBodies : Request(r, m, b)
    \/ \E r \in Reqs :
           \/ GetCustomerByEmail(r)
           \/ CreateCustomer(r)
           \/ CustomersRetrieve(r)
           \/ CustomersCreate(r)
           \/ UpdateCustomerStripeInfo(r)
           \/ ProductsCreate(r)
           \/ PricesCreate(r)
           \/ SubscriptionsCreate(r, Today)
           \/ AttachSubscription(r)
           \/ SubscriptionSchedulesCreate(r)
           \/ CheckoutSessionsCreate(r)
           \/ CallFails(r)
    \/ \E k \in QueryKinds, id \in QueryIds : QueryRequest(k, id)
    \/ SubscriptionsRetrieve
    \/ SessionsRetrieve
    \/ QueryFails

QuerySpec == Init /\ [][QueryNext]_vars

\* ------------------------------------------------- the payment portal page

\* Number of requests one page instance is followed for.
MaxSubmit == 2

Lower == "abcdefghijklmnopqrstuvwxyz"

Upper == "ABCDEFGHIJKLMNOPQRSTUVWXYZ"

Digits == "0123456789"

CharAt(s, i) == SubSeq(s, i, i)

\* Position of the character c in s, 0 when it is not there.
IndexIn(c, s) ==
    IF \E i \in 1..Len(s) : CharAt(s, i) = c
    THEN CHOOSE i \in 1..Len(s) : CharAt(s, i) = c
    ELSE 0

toUpperCase(c) == IF IndexIn(c, Lower) > 0 THEN CharAt(Upper, IndexIn(c, Lower)) ELSE c

\* value.toUpperCase().replace(/[^A-Z0-9]/g, '')
RECURSIVE Registration(_)
Registration(v) ==
    IF v = "" THEN ""
    ELSE LET c == toUpperCase(CharAt(v, 1))
         IN  (IF IndexIn(c, Upper) > 0 \/ IndexIn(c, Digits) > 0 THEN c ELSE "")
                 \o Registration(SubSeq(v, 2, Len(v)))

\* The number a string of digits stands for.
RECURSIVE DigitsValue(_)
DigitsValue(v) ==
    IF v = "" THEN 0
    ELSE 10 * DigitsValue(SubSeq(v, 1, Len(v) - 1)) + (IndexIn(CharAt(v, Len(v)), Digits) - 1)

AllDigits(v) == v # "" /\ \A i \in 1..Len(v) : IndexIn(CharAt(v, i), Digits) > 0

\* parseFloat(value) of a whole number of pounds with an optional sign, in
\* minor units; NaN for anything else.
parseFloat(v) ==
    IF AllDigits(v) THEN [nan |-> FALSE, value |-> 100 * DigitsValue(v)]
    ELSE IF Len(v) > 1 /\ CharAt(v, 1) = "-" /\ AllDigits(SubSeq(v, 2, Len(v)))
         THEN [nan |-> FALSE, value |-> 0 - 100 * DigitsValue(SubSeq(v, 2, Len(v)))]
    ELSE [nan |-> TRUE, value |-> 0]

\* parseFloat(value) || 0
OrZero(n) == IF n.nan THEN 0 ELSE n.value

Fields == {"pcnNumber", "vehicleRegistration", "email", "penaltyAmount"}

\* What the user may type into a field.
Typed(field) ==
    CASE field = "pcnNumber" -> {"", "PCN1"}
      [] field = "vehicleRegistration" -> {"", "ab12 cde", " -"}
      [] field = "email" -> {"", "a@x.com"}
      [] field = "penaltyAmount" -> {"", "0", "91", "-5"}

OnPortal == page.location = "portal"

\* handleInputChange(field, value)
HandleInputChange(field, value) ==
    /\ OnPortal
    /\ page' = [page EXCEPT !.formData[field] =
                    IF field = "vehicleRegistration" THEN Registration(value)
                    ELSE IF field = "penaltyAmount" THEN OrZero(parseFloat(value))
                    ELSE value]
    /\ UNCHANGED <<customers, stripeCustomers, products, prices, subscriptions, sessions,
                   req, query, env>>

\* onCheckedChange: setAcceptedTerms(checked === true)
SetAcceptedTerms(checked) ==
    /\ OnPortal
    /\ page' = [page EXCEPT !.acceptedTerms = checked]
    /\ UNCHANGED <<customers, stripeCustomers, products, prices, subscriptions, sessions,
                   req, query, env>>

\* The first check of handleFormSubmit; a string is falsy when empty, a
\* number when 0.
FormInvalid(f) ==
    \/ f.pcnNumber = "" \/ f.vehicleRegistration = "" \/ f.email = ""
    \/ f.penaltyAmount = 0 \/ f.penaltyAmount <= 0

\* The body of the apiRequest.
RequestBody(f) == Body(f.email, f.pcnNumber, f.vehicleRegistration, f.penaltyAmount)

\* setIsLoading(true) and the call of apiRequest('POST',
\* '/api/create-checkout-session', {...}).
SendRequest ==
    [page EXCEPT !.isLoading = TRUE, !.pc = "apiRequest", !.sent = @ + 1,
                 !.lastBody = RequestBody(page.formData)]

\* Variant: the terms checkbox is not looked at.
HandleFormSubmit_NoTerms ==
    /\ OnPortal /\ ~page.isLoading /\ page.sent < MaxSubmit
    /\ page' = IF FormInvalid(page.formData)
               THEN [page EXCEPT !.toast = "Validation Error"]
               ELSE SendRequest
    /\ UNCHANGED <<customers, stripeCustomers, products, prices, subscriptions, sessions,
                   req, query, env>>

\* The form is submitted (the submit button is disabled while isLoading)
\* and handleFormSubmit runs up to its first await.
HandleFormSubmit ==
    /\ OnPortal /\ ~page.isLoading /\ page.sent < MaxSubmit
    /\ page' = IF FormInvalid(page.formData)
               THEN [page EXCEPT !.toast = "Validation Error"]
               ELSE IF ~page.acceptedTerms
                    THEN [page EXCEPT !.toast = "Terms Required"]
                    ELSE SendRequest
    /\ UNCHANGED <<customers, stripeCustomers, products, prices, subscriptions, sessions,
                   req, query, env>>

\* catch: toast({ title: "Error" }); finally: setIsLoading(false).
CaughtAndSettled(pg) == [pg EXCEPT !.toast = "Error", !.isLoading = FALSE, !.pc = "idle"]

\* await apiRequest(...) returns a response or rejects; a response that is
\* not ok throws.
ApiRequestSettles(outcome) ==
    /\ OnPortal /\ page.pc = "apiRequest"
    /\ page' = IF outcome = "ok" THEN [page EXCEPT !.pc = "json"]
               ELSE CaughtAndSettled(page)
    /\ UNCHANGED <<customers, stripeCustomers, products, prices, subscriptions, sessions,
                   req, query, env>>

\* await response.json() returns data: with data.url the redirect is put on
\* a 100 ms timer, without it the handler throws; then finally runs.
JsonSettles(hasUrl) ==
    /\ OnPortal /\ page.pc = "json"
    /\ page' = IF hasUrl
               THEN [page EXCEPT !.timers = @ + 1, !.isLoading = FALSE, !.pc = "idle"]
               ELSE CaughtAndSettled(page)
    /\ UNCHANGED <<customers, stripeCustomers, products, prices, subscriptions, sessions,
                   req, query, env>>

\* The timer fires: window.location.assign(data.url) leaves the page.
Redirect ==
    /\ OnPortal /\ page.timers > 0
    /\ page' = [page EXCEPT !.location = "checkout", !.timers = 0]
    /\ UNCHANGED <<customers, stripeCustomers, products, prices, subscriptions, sessions,
                   req, query, env>>

PortalNext ==
    \/ \E field \in Fields : \E value \in Typed(field) : HandleInputChange(field, value)
    \/ \E checked \in BOOLEAN : SetAcceptedTerms(checked)
    \/ HandleFormSubmit
    \/ \E outcome \in {"ok", "notOk", "rejected"} : ApiRequestSettles(outcome)
    \/ \E hasUrl \in BOOLEAN : JsonSettles(hasUrl)
    \/ Redirect

PortalSpec == Init /\ [][PortalNext]_vars

\* ------------------------------------------------------- derived notions

Emails == {b.email : b \in Bodies}

Started(r) == req[r].pc # "idle"

InCalls(r, op) == \E i \in 1..Len(req[r].calls) : req[r].calls[i] = op

Count(e) == Cardinality({c \in customers : c.email = e})

\* The request has left the identity step: the lookup found a record or
\* the create returned (with a record or with ConflictError).
PastIdentity(r) ==
    \/ req[r].pc \in {"customersRetrieve", "customersCreate"}
    \/ req[r].res.error = "ConflictError"
    \/ \E i \in 1..Len(req[r].calls) :
           req[r].calls[i] \notin {"getCustomerByEmail", "createCustomer"}

\* Positions at which a charge-scheme call (product, price, subscription,
\* schedule, checkout session) is pending or behind the request.
ChargeSchemeCalls ==
    {"products.create", "prices.create", "subscriptions.create",
     "subscriptionSchedules.create", "checkout.sessions.create"}

InChargeScheme(r) ==
    \/ PendingCall(r) \in ChargeSchemeCalls
    \/ \E op \in ChargeSchemeCalls : InCalls(r, op)

\* What a schedule charges in all: each iteration bills the unit_amount of
\* the schedule's one price.
PlanTotal(s) == s.iterations * ById(prices, s.price).unit_amount

Schedules == {s \in subscriptions : s.kind = "schedule"}

Abs(x) == IF x < 0 THEN -x ELSE x

LastCall(r) == req[r].calls[Len(req[r].calls)]

CallCount(r, op) == Cardinality({i \in 1..Len(req[r].calls) : req[r].calls[i] = op})

AllCalls ==
    RegistryCalls \cup {"customers.retrieve", "customers.create"} \cup ChargeSchemeCalls

\* The request took the create path, persisted the new processor customer
\* and then failed in the creation of the product, price, subscription or
\* schedule.
FailedAfterPersist(r) ==
    /\ req[r].pc = "done" /\ req[r].threw # ""
    /\ InCalls(r, "customers.create")
    /\ LastCall(r) \in {"products.create", "prices.create", "subscriptions.create",
                        "subscriptionSchedules.create"}

\* ---------------------------------------------------------------- claims

\* C1: at most one Customer record per email in every state, and exactly one
\* as soon as a provisioning request for that email has left the identity
\* step, however the requests for the email interleave.
C1_OneCustomerPerEmail ==
    \A e \in Emails :
        /\ Count(e) <= 1
        /\ (\E r \in Reqs : Started(r) /\ req[r].body.email = e /\ PastIdentity(r))
               => Count(e) = 1

\* Two requests for one email both found no record and both called create:
\* one stored the record, the other met the unique key.
C1_Witness ==
    \E r1, r2 \in Reqs :
        /\ r1 # r2
        /\ req[r1].body.email = req[r2].body.email
        /\ req[r1].customer.id = r1
        /\ req[r2].res.error = "ConflictError"
        /\ Count(req[r1].body.email) = 1

\* C2: at most one processor customer is ever created for an email.
C2_AtMostOneProcessorCustomer ==
    \A e \in Emails : Cardinality({c \in stripeCustomers : c.email = e}) <= 1

\* C3: a request that starts when the Customer record of its email already
\* has a stripeCustomerId never reaches stripe.customers.create, and retrieves
\* with the stored id.
C3_RetrieveOnceAttached ==
    \A r \in Reqs :
        req[r].attachedAtStart =>
            /\ req[r].pc \notin {"createCustomer", "customersCreate", "updateCustomerStripeInfo"}
            /\ ~InCalls(r, "customers.create")
            /\ PastIdentity(r) =>
                   /\ req[r].customer.stripeCustomerId # 0
                   /\ req[r].customer.stripeCustomerId =
                          getCustomerByEmail(customers, req[r].body.email).stripeCustomerId
            /\ req[r].stripeCustomer \in {0, req[r].customer.stripeCustomerId}

C3_Witness ==
    \E r \in Reqs : req[r].attachedAtStart /\ InCalls(r, "customers.retrieve")

\* C4: no step replaces a stored stripeCustomerId by another value (nor
\* unsets it, nor drops the record).
C4_CustomerIdNeverReplaced ==
    [][\A c \in customers :
           c.stripeCustomerId # 0 =>
               \E d \in customers' :
                   d.id = c.id /\ d.stripeCustomerId = c.stripeCustomerId]_vars

\* Two overlapping requests created a processor customer each; the update
\* of the second one met the id stored by the first.
C4_Witness ==
    \E r \in Reqs :
        /\ req[r].res.error = "InvariantViolation"
        /\ req[r].stripeCustomer # 0
        /\ \E c \in customers :
               /\ c.id = req[r].customer.id
               /\ c.stripeCustomerId \notin {0, req[r].stripeCustomer}

\* C5: whenever a charge-scheme call of a request is pending or made, the
\* Customer record of the request has a stripeCustomerId, and it is the
\* processor customer the request created when it took the create path.
C5_PersistBeforeChargeScheme ==
    \A r \in Reqs :
        InChargeScheme(r) =>
            \E c \in customers :
                /\ c.id = req[r].customer.id
                /\ c.stripeCustomerId # 0
                /\ InCalls(r, "customers.create") =>
                       c.stripeCustomerId = req[r].stripeCustomer

C5_Witness ==
    \E r \in Reqs : InCalls(r, "customers.create") /\ InCalls(r, "products.create")

\* C6: a ConflictError of the Registry create is never the error of a response.
C6_ConflictNeverSurfaced ==
    \A r \in Reqs : req[r].res.error # "ConflictError"

\* C7: at most one subscription or subscription schedule is created at the
\* Processor for an email.
C7_AtMostOnePlanPerEmail ==
    \A e \in Emails :
        Cardinality({s \in subscriptions : req[s.id].body.email = e}) <= 1

\* C8: a successful mode-A request that starts after a successful mode-A
\* request with the same body answers the same customerId, retrieves the same
\* processor customer instead of creating one, and creates a product, a price
\* and a subscription of its own.
C8_SecondRequestReuses ==
    \A r1, r2 \in Reqs :
        ( /\ r1 \in req[r2].finishedBefore
          /\ req[r1].mode = "A" /\ req[r2].mode = "A"
          /\ req[r1].body = req[r2].body
          /\ Succeeded(r2) ) =>
            /\ req[r2].res.customerId = req[r1].res.customerId
            /\ req[r2].stripeCustomer = req[r1].stripeCustomer
            /\ InCalls(r2, "customers.retrieve") /\ ~InCalls(r2, "customers.create")
            /\ getCustomerByEmail(customers, req[r2].body.email).stripeCustomerId
                   = req[r2].stripeCustomer
            /\ \A set \in {products, prices, subscriptions} :
                   \E x, y \in set : x.id = r1 /\ y.id = r2 /\ x # y
            /\ req[r2].res.subscriptionId # req[r1].res.subscriptionId

\* The first request started on a Registry without the email, the second
\* after the first had answered.
C8_Witness ==
    \E r1, r2 \in Reqs :
        /\ r1 \in req[r2].finishedBefore
        /\ req[r1].mode = "A" /\ req[r2].mode = "A"
        /\ req[r1].body = req[r2].body
        /\ InCalls(r1, "createCustomer") /\ Succeeded(r2)

\* The validation rules of the provisioner's input: the three identifying
\* strings are non-empty and, where the mode takes one, penaltyAmount > 0.
InputValid(m, b) ==
    /\ b.email # "" /\ b.pcnNumber # "" /\ b.vehicleRegistration # ""
    /\ m = "B" => b.penaltyAmount > 0

\* C9: a request with invalid input makes no Registry and no Processor call.
C9_InvalidInputNoCall ==
    \A r \in Reqs :
        (Started(r) /\ ~InputValid(req[r].mode, req[r].body)) =>
            req[r].calls = <<>>

\* C10: in the mode that takes a penaltyAmount, no request with an amount of
\* 0 or less is provisioned.
C10_NonPositiveAmountRejected ==
    \A r \in Reqs :
        (req[r].mode = "B" /\ Started(r) /\ req[r].body.penaltyAmount <= 0) =>
            ~Succeeded(r)

\* C11: the instalments of every created plan sum to exactly the total
\* amount of the request (a remainder of the division by three going to one
\* of them).
C11_SplitExact ==
    \A s \in Schedules : PlanTotal(s) = req[s.id].body.penaltyAmount

\* C12: for a positive total, the three instalments of the created plan sum
\* to the total up to one minor unit.
C12_SplitWithinOneUnit ==
    \A s \in Schedules :
        req[s.id].body.penaltyAmount > 0 =>
            Abs(PlanTotal(s) - req[s.id].body.penaltyAmount) <= 1

\* A plan whose total leaves remainder 2: its share is rounded up and the
\* plan charges one minor unit more than the total.
C12_Witness ==
    \E s \in Schedules :
        /\ s.iterations = 3
        /\ req[s.id].body.penaltyAmount % 3 = 2
        /\ PlanTotal(s) = req[s.id].body.penaltyAmount + 1

\* C13: once a statement of a request has thrown (a Registry or Processor
\* call failed), the request issues no further call and its response, which
\* is not a success, never changes.
C13_NothingAfterFailure ==
    [][\A r \in Reqs :
           req[r].threw # "" =>
               /\ req'[r] = req[r]
               /\ req[r].res.status # 200]_vars

\* A request failed in prices.create after four calls that succeeded.
C13_Witness ==
    \E r \in Reqs :
        /\ req[r].threw = "ProcessorError"
        /\ Len(req[r].calls) >= 5 /\ LastCall(r) = "prices.create"
        /\ req[r].pc = "done"

\* C14: a request sends at most one response, exactly one when it ends; a
\* request that failed answers 4xx with the message of the failure and
\* nothing of a success payload.
C14_OneErrorResponse ==
    \A r \in Reqs :
        /\ req[r].sent <= 1
        /\ req[r].pc = "done" <=> req[r].sent = 1
        /\ req[r].threw # "" =>
               /\ req[r].pc = "done"
               /\ req[r].res.status \in 400..499
               /\ req[r].res.error = req[r].threw
               /\ req[r].res.subscriptionId = 0 /\ req[r].res.sessionId = 0
               /\ req[r].res.customerId = 0
               /\ req[r].res.clientSecret = "" /\ req[r].res.url = ""

\* One request failed validation, another one in a call.
C14_Witness ==
    \E r1, r2 \in Reqs :
        /\ req[r1].threw = "ValidationError" /\ req[r1].sent = 1
        /\ req[r2].threw \in {"StorageError", "ProcessorError"} /\ req[r2].sent = 1

\* C15 as stated: when a request ends in FailedAfterPersist, its Customer
\* record holds the processor customer it created and no stripeSubscriptionId.
C15_NoSubscriptionAtFailure ==
    [][\A r \in Reqs :
           (req[r].pc # "done" /\ FailedAfterPersist(r)') =>
               LET c == ById(customers', req'[r].customer.id)
               IN  /\ c.stripeCustomerId = req'[r].stripeCustomer
                   /\ c.stripeSubscriptionId = 0]_vars

\* C15 amended: after a request ended in FailedAfterPersist, its Customer
\* record holds the processor customer it created, and a stripeSubscriptionId
\* only if another request, which succeeded in mode A, attached its own.
C15_PartialStateAfterFailure ==
    \A r \in Reqs :
        FailedAfterPersist(r) =>
            LET c == ById(customers, req[r].customer.id)
            IN  /\ c.stripeCustomerId = req[r].stripeCustomer
                /\ c.stripeSubscriptionId # 0 =>
                       \E o \in Reqs \ {r} :
                           /\ Succeeded(o) /\ req[o].mode = "A"
                           /\ req[o].customer.id = c.id
                           /\ req[o].subscription = c.stripeSubscriptionId

C15_Witness ==
    \E r \in Reqs :
        /\ FailedAfterPersist(r)
        /\ ById(customers, req[r].customer.id).stripeSubscriptionId = 0

\* C16: at the step in which a request answers with success, the Customer
\* record's stripeSubscriptionId is the subscription or schedule the request
\* created.
C16_SuccessStoresSubscription ==
    [][\A r \in Reqs :
           (req[r].pc # "done" /\ Succeeded(r)') =>
               /\ req'[r].subscription # 0
               /\ ById(customers', req'[r].customer.id).stripeSubscriptionId
                      = req'[r].subscription]_vars

\* C17: every mode-A success response carries subscriptionId, customerId and
\* a non-empty clientSecret.
C17_SuccessHasClientSecret ==
    \A r \in Reqs :
        (req[r].mode = "A" /\ Succeeded(r)) =>
            /\ req[r].res.subscriptionId # 0
            /\ req[r].res.customerId # 0
            /\ req[r].res.clientSecret # ""

\* C18: when the retrieve of the stored stripeCustomerId rejects because the
\* Processor does not know it, the request ends with an error response and
\* has created no processor customer.
C18_NoFallbackCreate ==
    \A r \in Reqs :
        req[r].threw = "NotFoundError" =>
            /\ req[r].pc = "done"
            /\ req[r].res.status = 400 /\ req[r].res.error = "NotFoundError"
            /\ LastCall(r) = "customers.retrieve"
            /\ ~InCalls(r, "customers.create")
            /\ ~\E c \in stripeCustomers : c.id = r

C18_Witness ==
    \E r \in Reqs :
        /\ req[r].threw = "NotFoundError"
        /\ req[r].customer.stripeCustomerId # 0
        /\ req[r].pc = "done"

\* C19 as stated: a request invokes each Registry and each Processor
\* operation at most once.
C19_EachOperationOnce ==
    \A r \in Reqs : \A op \in AllCalls : CallCount(r, op) <= 1

\* C19 amended: a request invokes each operation at most once, except the
\* Registry update, which it invokes at most twice, once to attach the new
\* processor customer and once to attach the subscription; no call is issued
\* again after it was made, whatever fails.
C19_NoRetry ==
    \A r \in Reqs :
        /\ \A op \in AllCalls \ {"updateCustomerStripeInfo"} : CallCount(r, op) <= 1
        /\ CallCount(r, "updateCustomerStripeInfo") <= 2
        /\ CallCount(r, "updateCustomerStripeInfo") = 2 =>
               /\ req[r].mode = "A"
               /\ InCalls(r, "customers.create") /\ InCalls(r, "subscriptions.create")
        /\ \A i \in 1..Len(req[r].calls) : req[r].calls[i] \in AllCalls
        /\ \A i \in 1..(Len(req[r].calls) - 1) : req[r].calls[i] # req[r].calls[i + 1]

\* A request that made both updates and succeeded, and one whose last call
\* failed.
C19_Witness ==
    \E r1, r2 \in Reqs :
        /\ CallCount(r1, "updateCustomerStripeInfo") = 2 /\ Succeeded(r1)
        /\ req[r2].threw \in {"StorageError", "ProcessorError"} /\ req[r2].pc = "done"

\* C20: every request that started eventually ends with exactly one
\* response, a success or an error, when each awaited call eventually
\* returns or rejects.
C20_EveryRequestEnds ==
    \A r \in Reqs :
        Started(r) ~> ( /\ req[r].pc = "done" /\ req[r].sent = 1
                        /\ req[r].res.status \in {200, 400} )

\* Both terminal states: one request answered with success, the other with
\* the error of a failed call.
C20_Witness ==
    \E r1, r2 \in Reqs :
        /\ Succeeded(r1)
        /\ req[r2].pc = "done" /\ req[r2].res.status = 400
        /\ req[r2].threw = "ProcessorError"

\* The Registry and Processor state a status query has no business with.
Stores == <<customers, stripeCustomers, products, prices, subscriptions, sessions>>

ProcessorReads == {"subscriptions.retrieve", "checkout.sessions.retrieve"}

\* C21: a step of a status query leaves every Customer record, every
\* Processor object and every provisioning request as they are; a query makes
\* no Registry call and one Processor read, the retrieve of its kind (none
\* when the session query carries no sessionId).
C21_QueriesReadOnly ==
    [][ /\ query' # query => (Stores' = Stores /\ req' = req)
        /\ \A i \in 1..Len(query'.calls) :
               /\ query'.calls[i] \in ProcessorReads
               /\ query'.calls[i] \notin RegistryCalls
               /\ query'.calls[i] = IF query'.kind = "subscription"
                                    THEN "subscriptions.retrieve"
                                    ELSE "checkout.sessions.retrieve"
        /\ Len(query'.calls) <= 1
        /\ query'.pc = "done" =>
               Len(query'.calls) = IF query'.id = 0 THEN 0 ELSE 1 ]_vars

\* A session query read a session that a mode-B request created, while the
\* Customer record and the Processor objects are in place.
C21_Witness ==
    /\ query.kind = "checkoutSession" /\ query.pc = "done"
    /\ query.calls = <<"checkout.sessions.retrieve">>
    /\ query.res.status = 200 /\ query.res.payload \in sessions
    /\ customers # {} /\ subscriptions # {}

\* C22: when the subscription query answers, an id the Processor holds (such
\* as the subscriptionId a mode-A request answered with) gets status 200 and
\* the Processor's subscription object as it is, unless the read itself
\* failed; an id the Processor does not know gets a 4xx status, an error
\* message and no payload.
C22_StatusPayloadVerbatim ==
    [][ (query.pc = "subscriptionsRetrieve" /\ query'.pc = "done") =>
            IF SubscriptionOf(query.id) # {}
            THEN \/ /\ query'.res.status = 200 /\ query'.res.error = ""
                    /\ query'.res.payload \in SubscriptionOf(query.id)
                 \/ /\ query'.res.status \in 400..499
                    /\ query'.res.error = "ProcessorError"
                    /\ query'.res.payload = NoPayload
            ELSE /\ query'.res.status \in 400..499
                 /\ query'.res.error \in {"NotFoundError", "ProcessorError"}
                 /\ query'.res.payload = NoPayload ]_vars

\* The query of the subscriptionId of a mode-A success response answered 200.
C22_Witness ==
    \E r \in Reqs :
        /\ req[r].mode = "A" /\ Succeeded(r)
        /\ query.kind = "subscription" /\ query.pc = "done"
        /\ query.id = req[r].res.subscriptionId
        /\ query.res.status = 200
        /\ query.res.payload = ById(subscriptions, req[r].subscription)

\* The redirect bases the deployment configures: the value of every source
\* that is set, the localhost default when none is.
ConfiguredBases(e) ==
    LET set == { e.CUSTOM_DOMAIN_URL, e.WEBSITE_URL } \cup
               (IF e.WEBSITE_HOSTNAME # "" THEN {"https://" \o e.WEBSITE_HOSTNAME} ELSE {}) \cup
               (IF e.REPL_SLUG # "" /\ e.REPL_OWNER # ""
                THEN {"https://" \o e.REPL_SLUG \o "." \o e.REPL_OWNER \o ".repl.co"}
                ELSE {})
    IN  IF set \ {""} = {} THEN {"http://localhost:5000"} ELSE set \ {""}

\* C23 as stated: every mode-B success response contains sessionId and a
\* redirect URL that starts with the configured base URL.
C23_RedirectUrlOnBase ==
    \A r \in Reqs :
        (req[r].mode = "B" /\ Succeeded(r)) =>
            /\ req[r].res.sessionId # 0
            /\ \E b \in ConfiguredBases(env) : StartsWith(req[r].res.url, b)

\* C23 amended: every mode-B success response contains the sessionId and the
\* url of the checkout session the request created, a page hosted by the
\* Processor; the success and cancel targets of that session start with a
\* configured base URL.
C23_SessionTargetsOnBase ==
    \A r \in Reqs :
        (req[r].mode = "B" /\ Succeeded(r)) =>
            \E s \in sessions :
                /\ s.id = r /\ req[r].res.sessionId = s.id
                /\ req[r].res.url = s.url /\ s.url # ""
                /\ StartsWith(s.url, "https://checkout.stripe.com")
                /\ \E b \in ConfiguredBases(env) :
                       /\ StartsWith(s.success_url, b \o "/payment-success")
                       /\ s.cancel_url = b \o "/"

\* A success in a deployment with a custom domain.
C23_Witness ==
    /\ env.CUSTOM_DOMAIN_URL # ""
    /\ \E r \in Reqs : req[r].mode = "B" /\ Succeeded(r) /\ req[r].res.sessionId = r

\* The metadata the plan's objects are to carry.
HasPlanMetadata(o, mode) ==
    /\ {"pcnNumber", "vehicleRegistration", "totalPayments"} \subseteq DOMAIN o.metadata
    /\ o.metadata.totalPayments = 3
    /\ mode = "B" => {"penaltyAmount", "monthlyAmount"} \subseteq DOMAIN o.metadata

\* C24: every object created at the Processor (customer, product, price,
\* subscription or schedule, checkout session) carries the metadata
\* pcnNumber, vehicleRegistration and totalPayments = 3, and in mode B also
\* penaltyAmount and monthlyAmount.
C24_MetadataOnEveryObject ==
    /\ \A o \in stripeCustomers : HasPlanMetadata(o, req[o.id].mode)
    /\ \A o \in products : HasPlanMetadata(o, req[o.id].mode)
    /\ \A o \in prices : HasPlanMetadata(o, req[o.id].mode)
    /\ \A o \in subscriptions : HasPlanMetadata(o, req[o.id].mode)
    /\ \A o \in sessions : HasPlanMetadata(o, req[o.id].mode)

\* C25: no step removes a Customer record or changes its id, email,
\* createdAt, pcnNumber or vehicleRegistration: the records only grow in
\* number and only their processor ids change.
C25_RecordsOnlyGrow ==
    [][\A c \in customers :
           \E d \in customers' :
               /\ d.id = c.id /\ d.email = c.email /\ d.createdAt = c.createdAt
               /\ d.pcnNumber = c.pcnNumber
               /\ d.vehicleRegistration = c.vehicleRegistration]_vars

\* Two records, one of them with both processor ids attached.
C25_Witness ==
    \E c, d \in customers :
        /\ c.id # d.id /\ c.createdAt # d.createdAt
        /\ c.stripeCustomerId # 0 /\ c.stripeSubscriptionId # 0

\* C26: a step of a request for email e leaves every Customer record of
\* another email as it is, holds no record of another email, and retrieves
\* only the processor customer stored for e.
C26_EmailsDoNotInterfere ==
    [][\A r \in Reqs :
           req'[r] # req[r] =>
               LET e == req'[r].body.email
               IN  /\ {c \in customers' : c.email # e} = {c \in customers : c.email # e}
                   /\ req'[r].customer.id # 0 => req'[r].customer.email = e
                   /\ (req[r].pc = "customersRetrieve" /\ req'[r].stripeCustomer # 0) =>
                          \E c \in customers :
                              c.email = e /\ c.stripeCustomerId = req'[r].stripeCustomer]_vars

\* Two overlapping requests for different emails both succeeded, each on a
\* record and a processor customer of its own.
C26_Witness ==
    \E r1, r2 \in Reqs :
        /\ req[r1].body.email # req[r2].body.email
        /\ Succeeded(r1) /\ Succeeded(r2)
        /\ r1 \notin req[r2].finishedBefore /\ r2 \notin req[r1].finishedBefore
        /\ req[r1].customer.id # req[r2].customer.id
        /\ req[r1].stripeCustomer # req[r2].stripeCustomer

\* C27: the first three monthly billing dates of every mode-A subscription
\* (creation, +1 month, +2 months) fall before its cancel_at, and the fourth
\* (+3 months) does not.
C27_ThreeInstalmentsBeforeCancel ==
    \A s \in subscriptions :
        s.kind = "subscription" =>
            /\ \A k \in 0..2 : DayNumber(BillingDate(s.created, k)) < s.cancel_at
            /\ DayNumber(BillingDate(s.created, 3)) >= s.cancel_at

\* C28: the price of every mode-A request has unit_amount 3000, three
\* payments of it making 9000, whatever penaltyAmount the body carries.
C28_FixedPriceInModeA ==
    \A p \in prices :
        req[p.id].mode = "A" =>
            /\ p.unit_amount = 3000
            /\ \A s \in subscriptions :
                   s.price = p.id => s.totalPayments * p.unit_amount = 9000

\* Mode-A prices for bodies with another penaltyAmount than 9000.
C28_Witness ==
    \E p \in prices, s \in subscriptions :
        /\ req[p.id].mode = "A" /\ req[p.id].body.penaltyAmount # 9000
        /\ s.price = p.id /\ s.kind = "subscription"

\* C29: when a request has ended, the processor customer it created is the
\* stripeCustomerId of the request's Customer record.
C29_CreatedCustomerRecorded ==
    \A r \in Reqs :
        (req[r].pc = "done" /\ \E c \in stripeCustomers : c.id = r) =>
            \E c \in customers :
                c.id = req[r].customer.id /\ c.stripeCustomerId = r

\* C30: when a mode-A request has ended with an error response, the
\* Processor holds no subscription that the request created.
C30_NoSubscriptionBehindError ==
    \A r \in Reqs :
        (req[r].mode = "A" /\ req[r].pc = "done" /\ req[r].res.status # 200) =>
            ~\E s \in subscriptions : s.id = r

\* C31: a stripeSubscriptionId stored on a Customer record names a
\* subscription that was created on the processor customer the same record
\* names as its stripeCustomerId.
C31_SubscriptionOnStoredCustomer ==
    \A c \in customers :
        c.stripeSubscriptionId # 0 =>
            \E s \in subscriptions :
                /\ s.id = c.stripeSubscriptionId /\ s.kind = "subscription"
                /\ s.customer = c.stripeCustomerId /\ c.stripeCustomerId # 0

\* Two overlapping mode-A requests for one email created a processor
\* customer each, and the record has a subscription attached.
C31_Witness ==
    \E r1, r2 \in Reqs :
        /\ r1 # r2 /\ req[r1].mode = "A" /\ req[r2].mode = "A"
        /\ req[r1].body.email = req[r2].body.email
        /\ InCalls(r1, "customers.create") /\ InCalls(r2, "customers.create")
        /\ \E c \in customers :
               c.email = req[r1].body.email /\ c.stripeSubscriptionId = r1

\* C32: the pcnNumber and vehicleRegistration in the metadata of every
\* subscription or schedule are those of the body of the request that
\* created it, which are also those of its product.
C32_MetadataFromRequest ==
    \A s \in subscriptions :
        /\ s.metadata.pcnNumber = req[s.id].body.pcnNumber
        /\ s.metadata.vehicleRegistration = req[s.id].body.vehicleRegistration
        /\ \A p \in products :
               p.id = req[s.id].product =>
                   /\ p.pcnNumber = s.metadata.pcnNumber
                   /\ p.vehicleRegistration = s.metadata.vehicleRegistration

\* The redirect targets of a checkout session, built on base b.
OnBase(s, b) ==
    /\ s.success_url = b \o "/payment-success?session_id={CHECKOUT_SESSION_ID}"
    /\ s.cancel_url = b \o "/"

\* C33: the success and cancel targets of every checkout session are built
\* on one base: CUSTOM_DOMAIN_URL when set, else https://WEBSITE_HOSTNAME
\* when set, else https://REPL_SLUG.REPL_OWNER.repl.co when both are set,
\* else WEBSITE_URL when set, else http://localhost:5000.
C33_BasePriority ==
    \A s \in sessions :
        LET repl == env.REPL_SLUG # "" /\ env.REPL_OWNER # ""
        IN  /\ env.CUSTOM_DOMAIN_URL # "" => OnBase(s, env.CUSTOM_DOMAIN_URL)
            /\ (env.CUSTOM_DOMAIN_URL = "" /\ env.WEBSITE_HOSTNAME # "") =>
                   OnBase(s, "https://" \o env.WEBSITE_HOSTNAME)
            /\ (env.CUSTOM_DOMAIN_URL = "" /\ env.WEBSITE_HOSTNAME = "" /\ repl) =>
                   OnBase(s, "https://" \o env.REPL_SLUG \o "." \o env.REPL_OWNER
                                \o ".repl.co")
            /\ (env.CUSTOM_DOMAIN_URL = "" /\ env.WEBSITE_HOSTNAME = "" /\ ~repl
                   /\ env.WEBSITE_URL # "") => OnBase(s, env.WEBSITE_URL)
            /\ OnBase(s, "http://localhost:5000") <=>
                   ( env.CUSTOM_DOMAIN_URL = "" /\ env.WEBSITE_HOSTNAME = "" /\ ~repl
                     /\ env.WEBSITE_URL = "" )

\* A session in a deployment where a later source is set next to an earlier
\* one, and half of the REPL pair is missing.
C33_Witness ==
    /\ env.CUSTOM_DOMAIN_URL = "" /\ env.WEBSITE_HOSTNAME # ""
    /\ env.REPL_SLUG # "" /\ env.REPL_OWNER = "" /\ env.WEBSITE_URL # ""
    /\ \E s \in sessions : OnBase(s, "https://" \o env.WEBSITE_HOSTNAME)

\* C34: a checkout-session query whose sessionId is missing or not a string
\* is answered 400 'Session ID is required', once, without a Processor call.
C34_SessionIdRequired ==
    (query.kind = "checkoutSession" /\ query.id = 0) =>
        /\ query.pc = "done" /\ query.sent = 1
        /\ query.res.status = 400 /\ query.res.error = "Session ID is required"
        /\ query.res.payload = NoPayload
        /\ query.calls = <<>>

\* Such a query after one that read a session.
C34_Witness ==
    /\ query.kind = "checkoutSession" /\ query.id = 0 /\ query.sent = 1
    /\ sessions # {}

\* C35: the page sends a request only at a submit with pcnNumber,
\* vehicleRegistration and email non-empty, penaltyAmount above 0 and the
\* terms accepted, and what it sends is the form; a submit in any other form
\* state sends nothing.
C35_RequestOnlyFromValidForm ==
    [][ /\ page'.sent # page.sent =>
               /\ page.formData.pcnNumber # "" /\ page.formData.vehicleRegistration # ""
               /\ page.formData.email # "" /\ page.formData.penaltyAmount > 0
               /\ page.acceptedTerms
               /\ page'.sent = page.sent + 1
               /\ page'.lastBody.email = page.formData.email
               /\ page'.lastBody.pcnNumber = page.formData.pcnNumber
               /\ page'.lastBody.vehicleRegistration = page.formData.vehicleRegistration
               /\ page'.lastBody.penaltyAmount = page.formData.penaltyAmount
        /\ page'.toast \in {"Validation Error", "Terms Required"} /\ page'.toast # page.toast
               => page'.sent = page.sent ]_vars

\* A request was sent after a submit that the validation had refused.
C35_Witness ==
    /\ page.sent = 1 /\ page.isLoading /\ page.toast = "Validation Error"
    /\ page.lastBody.penaltyAmount = 9100

\* C36: no request is sent while one is in flight, isLoading is false again
\* whenever the request has settled, and once a response has put the redirect
\* on its timer no further request is sent from the page.
C36_OneRequestPerSetup ==
    [][ /\ page.pc # "idle" => page'.sent = page.sent
        /\ (page.pc # "idle" /\ page'.pc = "idle") => ~page'.isLoading
        /\ page.timers > 0 => page'.sent = page.sent ]_vars

====
